---- MODULE Spec2Model ----
(***************************************************************************)
(* Model of the spaced-repetition scheduler of jflash:                     *)
(*   backend/api/review.py   get_review_cards, submit_answer, reset_srs    *)
(*   backend/api/vocab.py    create_vocabulary, delete_vocabulary          *)
(*   backend/models/*.py     the Vocabulary, SRS_Review, Study_Log tables  *)
(*                                                                         *)
(*   backend/api/stats.py    get_overview_stats, get_daily_stats,          *)
(*                           get_streak_info                               *)
(*   backend/api/export_import.py  the vocabulary imports                  *)
(*   backend/database.py     one Session for each request                  *)
(*                                                                         *)
(* vocabulary, srs_review and study_log are the three tables, resp is the  *)
(* last request with its response.  sessions holds the Session of each     *)
(* request that is served in steps next to another one.  outcomes is a     *)
(* history variable: the answers given to item 1 since it was created or   *)
(* last reset (SpecReplay), or the log rows of every item written since    *)
(* that item was created or last reset (SpecLearned).                      *)
(*                                                                         *)
(* Time is a wall clock counted in ticks, TicksPerDay ticks to a day.      *)
(* ease_factor is a Python float (IEEE-754 double).  A double e near a     *)
(* decimal tenth is kept exactly as the pair [tenth, err] with             *)
(*       e = tenth/10 + err * 2^-52 / 40                                   *)
(* so 2.5 is [25, 0], the double 1.3 is [13, 8], the double 0.1 is [1, 1]  *)
(* and the double 0.2 is [2, 2].  Sums are rounded to the nearest double   *)
(* of their binade (spacing 40 units in [1,2), 80 units in [2,4)), ties to *)
(* the even significand, as the hardware does.                             *)
(***************************************************************************)
EXTENDS Integers, Sequences, FiniteSets, TLC

VARIABLES vocabulary, srs_review, study_log, now, tz, resp, sessions, outcomes

vars == <<vocabulary, srs_review, study_log, now, tz, resp, sessions, outcomes>>

----------------------------------------------------------------------------
(* Bounds of the exploration *)

MaxVocab == 2
MaxLog == 2
MaxTime == 3
MaxEngineLog == 9
MaxTz == 1
TicksPerDay == 2
MaxDays == 2
MaxOverviewVocab == 3
MaxOverviewLog == 5
MaxShortTime == 1
MaxDueTime == 730
MaxRows == 2

(* Constants of the program *)

MAX_INTERVAL == 365
MIN_EASE_FACTOR == [tenth |-> 13, err |-> 8]
MAX_EASE_FACTOR == [tenth |-> 25, err |-> 0]
EASE_BONUS == [tenth |-> 1, err |-> 1]
EASE_PENALTY == [tenth |-> 2, err |-> 2]
DEFAULT_INTERVAL == 0
DEFAULT_EASE_FACTOR == [tenth |-> 25, err |-> 0]
DEFAULT_REPS == 0
MASTERY_THRESHOLD_REPS == 5
DASHBOARD_DAILY_STATS_DAYS == 7
DASHBOARD_ACCURACY_TREND_DAYS == 14
MIN_ACCURACY_TREND_DAYS == 7

VocabIds == 1..MaxVocab
RequestIds == 1..(MaxVocab + 1)
Limits == 1..MaxVocab
TzOffsets == (0 - MaxTz)..MaxTz

\* the requests that are served at the same time
Procs == {1, 2}

\* a request whose handler has not started: SessionLocal() of get_db
NoSession == [pc |-> "idle"]

\* what a request served alone, from its first line to its response, leaves as it is
alone == <<sessions, outcomes>>

----------------------------------------------------------------------------
(* IEEE-754 double arithmetic on ease factors *)

Min(a, b) == IF a <= b THEN a ELSE b

Max(a, b) == IF a >= b THEN a ELSE b

\* spacing of the doubles around tenth/10 + y units: 2^-52 below 2.0, 2^-51 from 2.0 on
Grid(tenth, y) == IF tenth > 20 \/ (tenth = 20 /\ y >= 0) THEN 80 ELSE 40

\* the significand of the double tenth/10 + x units is even
EvenSignificand(tenth, x, G) == (64 * tenth + x) % (2 * G) = 0

\* round the real number tenth/10 + y units to the nearest double, ties to even
FRound(tenth, y) ==
    LET G == Grid(tenth, y)
        r == (0 - 64 * tenth) % G
        lo == y - ((y - r) % G)
        hi == lo + G
    IN  IF y - lo < hi - y THEN [tenth |-> tenth, err |-> lo]
        ELSE IF y - lo > hi - y THEN [tenth |-> tenth, err |-> hi]
        ELSE IF EvenSignificand(tenth, lo, G) THEN [tenth |-> tenth, err |-> lo]
        ELSE [tenth |-> tenth, err |-> hi]

FAdd(a, b) == FRound(a.tenth + b.tenth, a.err + b.err)

FSub(a, b) == FRound(a.tenth - b.tenth, a.err - b.err)

FLess(a, b) == a.tenth < b.tenth \/ (a.tenth = b.tenth /\ a.err < b.err)

FMin(a, b) == IF FLess(b, a) THEN b ELSE a

FMax(a, b) == IF FLess(a, b) THEN b ELSE a

RECURSIVE Pow2Floor(_)
\* the largest power of two that is at most h (h >= 1)
Pow2Floor(h) == IF h < 2 THEN 1 ELSE 2 * Pow2Floor(h \div 2)

\* Python's round(): nearest integer, an exact half goes to the even neighbour
RoundHalfEven(h) == IF h % 2 = 0 THEN h ELSE h + 1

\* int(interval * ease): the product is cut down to an integer
RoundProductDown(interval, ease) == (interval * ease.tenth) \div 10

\* round(interval * ease): the double product, then Python's round().
\* The product is interval*tenth/10 + interval*err units.  Away from a half
\* the error term cannot change the nearest integer.  At h + 0.5 the double
\* product is exactly h + 0.5 unless the error exceeds half a unit in the
\* last place of the product (20 * 2^k units in [2^k, 2^(k+1))).
RoundProduct(interval, ease) ==
    LET P == interval * ease.tenth
        h == P \div 10
        rem == P % 10
        d == interval * ease.err
        halfUlp == 20 * Pow2Floor(h)
    IN  IF rem < 5 THEN h
        ELSE IF rem > 5 THEN h + 1
        ELSE IF d > halfUlp THEN h + 1
        ELSE IF d < 0 - halfUlp THEN h
        ELSE RoundHalfEven(h)

----------------------------------------------------------------------------
(* Tables *)

\* days as a timedelta
Days(n) == n * TicksPerDay

\* SQLite CURRENT_TIMESTAMP is UTC; datetime.now() is local time = UTC + tz
UtcNow == now - tz

\* rowid of a new row of a table without AUTOINCREMENT: largest rowid + 1
RECURSIVE MaxOf(_)
MaxOf(S) == IF S = {} THEN 0
            ELSE LET x == CHOOSE y \in S : TRUE
                 IN  Max(x, MaxOf(S \ {x}))

NextRowId(ids) == MaxOf(ids) + 1

SrsIds == {r.id : r \in srs_review}

\* db.query(SRSReview).filter(SRSReview.vocab_id == v)
SrsOf(v) == {r \in srs_review : r.vocab_id = v}

\* .first(): the matching row met first, in rowid order
First(rows) == CHOOSE r \in rows : \A q \in rows : r.id <= q.id

NewSrs(v) ==
    [id |-> NextRowId(SrsIds), vocab_id |-> v, interval |-> DEFAULT_INTERVAL,
     ease_factor |-> DEFAULT_EASE_FACTOR, next_review |-> UtcNow,
     reps |-> DEFAULT_REPS]

----------------------------------------------------------------------------
(* Operations *)

Init ==
    /\ vocabulary = {}
    /\ srs_review = {}
    /\ study_log = <<>>
    /\ now = 0
    /\ tz \in TzOffsets
    /\ resp = [op |-> "init"]
    /\ sessions = [p \in Procs |-> NoSession]
    /\ outcomes = <<>>

\* POST /api/vocab
CreateVocabulary ==
    LET v == NextRowId(vocabulary)
    IN  /\ vocabulary' = vocabulary \cup {v}
        /\ srs_review' = srs_review \cup {NewSrs(v)}
        /\ resp' = [op |-> "create_vocabulary", status |-> 201, id |-> v]
        /\ UNCHANGED <<study_log, now, tz>>

\* the Vocabulary rows of n new items, each flushed at once, with the
\* SRSReview(vocab_id=vocab.id) row of each
AddedIds(n) == NextRowId(vocabulary)..(NextRowId(vocabulary) + n - 1)

\* the items are added without their SRS_Review rows
AddedSrsNone(n) == {}

AddedSrs(n) ==
    {[id |-> NextRowId(SrsIds) + i, vocab_id |-> NextRowId(vocabulary) + i,
      interval |-> DEFAULT_INTERVAL, ease_factor |-> DEFAULT_EASE_FACTOR,
      next_review |-> UtcNow, reps |-> DEFAULT_REPS] : i \in 0..(n - 1)}

\* POST /api/vocab/bulk with n words
CreateVocabularyBulk(n) ==
    /\ vocabulary' = vocabulary \cup AddedIds(n)
    /\ srs_review' = srs_review \cup AddedSrs(n)
    /\ resp' = [op |-> "create_vocabulary_bulk", status |-> 201, created |-> n,
                ids |-> AddedIds(n)]
    /\ UNCHANGED <<study_log, now, tz>>

\* A row of an import file: "new" is a word not yet in the vocabulary,
\* "duplicate" one with the kanji, reading and meaning of a stored word,
\* "blank" one without kanji.
RowKinds == {"new", "duplicate", "blank"}

\* a file can repeat only a word that is stored or that it holds further up
FileRows(items) ==
    \A i \in 1..Len(items) :
        items[i] = "duplicate" =>
            vocabulary # {} \/ \E j \in 1..(i - 1) : items[j] # "blank"

Count(items, kind) == Cardinality({i \in 1..Len(items) : items[i] = kind})

\* the rows that pass the checks of the loop: kanji present, and not a
\* duplicate when skip_duplicates is set
Imported(items, skip_duplicates) ==
    Count(items, "new") + (IF skip_duplicates THEN 0 ELSE Count(items, "duplicate"))

\* the loop of the three imports and their db.commit()
ImportRows(op, items, skip_duplicates) ==
    /\ vocabulary' = vocabulary \cup AddedIds(Imported(items, skip_duplicates))
    /\ srs_review' = srs_review \cup AddedSrs(Imported(items, skip_duplicates))
    /\ resp' = [op |-> op, status |-> 200,
                vocabulary_imported |-> Imported(items, skip_duplicates),
                vocabulary_skipped |-> IF skip_duplicates THEN Count(items, "duplicate") ELSE 0]
    /\ UNCHANGED <<study_log, now, tz>>

\* POST /api/data/vocab/csv
ImportVocabCsv(items, skip_duplicates) == ImportRows("import_vocab_csv", items, skip_duplicates)

\* POST /api/data/vocab/json: an empty items array is refused
ImportVocabJson(items, skip_duplicates) ==
    IF items = <<>>
    THEN /\ resp' = [op |-> "import_vocab_json", status |-> 400]
         /\ UNCHANGED <<vocabulary, srs_review, study_log, now, tz>>
    ELSE ImportRows("import_vocab_json", items, skip_duplicates)

\* POST /api/data/all/json, the vocabulary part
ImportAllJson(items, skip_duplicates) == ImportRows("import_all_json", items, skip_duplicates)

\* the Vocabulary row alone is deleted, its SRS_Review row stays
DeleteVocabularyNoCascade(vocab_id) ==
    IF vocab_id \notin vocabulary
    THEN /\ resp' = [op |-> "delete_vocabulary", status |-> 404, vocab_id |-> vocab_id]
         /\ UNCHANGED <<vocabulary, srs_review, study_log, now, tz>>
    ELSE /\ vocabulary' = vocabulary \ {vocab_id}
         /\ resp' = [op |-> "delete_vocabulary", status |-> 204, vocab_id |-> vocab_id]
         /\ UNCHANGED <<srs_review, study_log, now, tz>>

\* DELETE /api/vocab/{vocab_id}: the ORM cascade of Vocabulary.srs_review
\* deletes the SRS_Review row; Study_Log has no relationship and the
\* connection never enables SQLite foreign keys, so its rows stay.
DeleteVocabulary(vocab_id) ==
    IF vocab_id \notin vocabulary
    THEN /\ resp' = [op |-> "delete_vocabulary", status |-> 404, vocab_id |-> vocab_id]
         /\ UNCHANGED <<vocabulary, srs_review, study_log, now, tz>>
    ELSE /\ vocabulary' = vocabulary \ {vocab_id}
         /\ srs_review' = srs_review \ SrsOf(vocab_id)
         /\ resp' = [op |-> "delete_vocabulary", status |-> 204, vocab_id |-> vocab_id]
         /\ UNCHANGED <<study_log, now, tz>>

\* submit_answer, known: min(ease_factor + 0.1, 2.5)
EaseAfterKnown(srs) == FMin(FAdd(srs.ease_factor, EASE_BONUS), MAX_EASE_FACTOR)

\* the interval grows without the MAX_INTERVAL cap
IntervalAfterKnownUncapped(srs) ==
    IF srs.reps = 0 THEN 1
    ELSE IF srs.reps = 1 THEN 6
    ELSE RoundProduct(srs.interval, srs.ease_factor)

\* the product is taken with the ease factor already raised
IntervalAfterKnownNewEase(srs) ==
    Min(IF srs.reps = 0 THEN 1
        ELSE IF srs.reps = 1 THEN 6
        ELSE RoundProduct(srs.interval, EaseAfterKnown(srs)),
        MAX_INTERVAL)

\* an interval over MAX_INTERVAL is wrapped around instead of cut
IntervalAfterKnownWrapped(srs) ==
    (IF srs.reps = 0 THEN 1
     ELSE IF srs.reps = 1 THEN 6
     ELSE RoundProduct(srs.interval, srs.ease_factor)) % (MAX_INTERVAL + 1)

\* submit_answer, known: 1, then 6, then round(interval * ease_factor), at most MAX_INTERVAL
IntervalAfterKnown(srs) ==
    Min(IF srs.reps = 0 THEN 1
        ELSE IF srs.reps = 1 THEN 6
        ELSE RoundProduct(srs.interval, srs.ease_factor),
        MAX_INTERVAL)

\* the penalty of a wrong answer is the bonus of a right one
EaseAfterUnknownSmallPenalty(srs) ==
    FMax(FSub(srs.ease_factor, EASE_BONUS), MIN_EASE_FACTOR)

\* submit_answer, not known: max(ease_factor - 0.2, MIN_EASE_FACTOR)
EaseAfterUnknown(srs) == FMax(FSub(srs.ease_factor, EASE_PENALTY), MIN_EASE_FACTOR)

\* reps counts every answer, the wrong ones too
RepsAfterUnknownCounted(srs) == srs.reps + 1

\* standard SM-2: a wrong answer starts the repetitions again
RepsAfterUnknownReset(srs) == 0

\* submit_answer, not known: reps is left as it is
RepsAfterUnknown(srs) == srs.reps

\* the next review is dated with the interval the row held before the answer
NextReviewAfterOldInterval(srs, new_interval) == now + Days(srs.interval)

\* the next review is put off by twice the interval
NextReviewAfterTwice(srs, new_interval) == now + Days(2 * new_interval)

\* srs.next_review = now + timedelta(days=srs.interval), after srs.interval is set
NextReviewAfter(srs, new_interval) == now + Days(new_interval)

\* a wrong answer leaves the item due at once: interval 0 instead of 1
ApplyAnswerWrongDueNow(srs, known) ==
    LET new_interval == IF known THEN IntervalAfterKnown(srs) ELSE 0
        new_ease == IF known THEN EaseAfterKnown(srs) ELSE EaseAfterUnknown(srs)
        new_reps == IF known THEN srs.reps + 1 ELSE RepsAfterUnknown(srs)
    IN  [srs EXCEPT !.interval = new_interval,
                    !.ease_factor = new_ease,
                    !.reps = new_reps,
                    !.next_review = NextReviewAfter(srs, new_interval)]

\* the SM-2 update of one SRS_Review row
ApplyAnswer(srs, known) ==
    LET new_interval == IF known THEN IntervalAfterKnown(srs) ELSE 1
        new_ease == IF known THEN EaseAfterKnown(srs) ELSE EaseAfterUnknown(srs)
        new_reps == IF known THEN srs.reps + 1 ELSE RepsAfterUnknown(srs)
    IN  [srs EXCEPT !.interval = new_interval,
                    !.ease_factor = new_ease,
                    !.reps = new_reps,
                    !.next_review = NextReviewAfter(srs, new_interval)]

\* studied_at is left to the column's server default, CURRENT_TIMESTAMP
StudyLogRowServerTime(vocab_id, known) ==
    [vocab_id |-> vocab_id, known |-> known, studied_at |-> UtcNow]

\* StudyLog(vocab_id=data.vocab_id, known=data.known, studied_at=now)
StudyLogRow(vocab_id, known) ==
    [vocab_id |-> vocab_id, known |-> known, studied_at |-> now]

\* a missing SRS_Review row is created on the fly instead of answering 404
SubmitAnswerGetOrCreate(vocab_id, known) ==
    LET srs == IF SrsOf(vocab_id) = {} THEN NewSrs(vocab_id)
               ELSE First(SrsOf(vocab_id))
        upd == ApplyAnswer(srs, known)
    IN  /\ study_log' = Append(study_log, StudyLogRow(vocab_id, known))
        /\ srs_review' = (srs_review \ {srs}) \cup {upd}
        /\ resp' = [op |-> "submit_answer", status |-> 200,
                    vocab_id |-> upd.vocab_id, known |-> known,
                    next_review |-> upd.next_review,
                    new_interval |-> upd.interval,
                    ease_factor |-> upd.ease_factor, reps |-> upd.reps]
        /\ UNCHANGED <<vocabulary, now, tz>>

\* POST /api/review/answer
SubmitAnswer(vocab_id, known) ==
    IF SrsOf(vocab_id) = {}
    THEN /\ resp' = [op |-> "submit_answer", status |-> 404,
                     vocab_id |-> vocab_id, known |-> known]
         /\ UNCHANGED <<vocabulary, srs_review, study_log, now, tz>>
    ELSE LET srs == First(SrsOf(vocab_id))
             upd == ApplyAnswer(srs, known)
         IN  /\ study_log' = Append(study_log, StudyLogRow(vocab_id, known))
             /\ srs_review' = (srs_review \ {srs}) \cup {upd}
             /\ resp' = [op |-> "submit_answer", status |-> 200,
                         vocab_id |-> upd.vocab_id, known |-> known,
                         next_review |-> upd.next_review,
                         new_interval |-> upd.interval,
                         ease_factor |-> upd.ease_factor, reps |-> upd.reps]
             /\ UNCHANGED <<vocabulary, now, tz>>

\* the reset forgets to put reps back
ResetSrsKeepReps(vocab_id) ==
    IF SrsOf(vocab_id) = {}
    THEN /\ resp' = [op |-> "reset_srs", status |-> 404, vocab_id |-> vocab_id]
         /\ UNCHANGED <<vocabulary, srs_review, study_log, now, tz>>
    ELSE LET srs == First(SrsOf(vocab_id))
             upd == [srs EXCEPT !.interval = 0,
                                !.ease_factor = [tenth |-> 25, err |-> 0],
                                !.next_review = now]
         IN  /\ srs_review' = (srs_review \ {srs}) \cup {upd}
             /\ resp' = [op |-> "reset_srs", status |-> 200, vocab_id |-> vocab_id]
             /\ UNCHANGED <<vocabulary, study_log, now, tz>>

\* the reset forgets to put ease_factor back
ResetSrsKeepEase(vocab_id) ==
    IF SrsOf(vocab_id) = {}
    THEN /\ resp' = [op |-> "reset_srs", status |-> 404, vocab_id |-> vocab_id]
         /\ UNCHANGED <<vocabulary, srs_review, study_log, now, tz>>
    ELSE LET srs == First(SrsOf(vocab_id))
             upd == [srs EXCEPT !.interval = 0, !.next_review = now, !.reps = 0]
         IN  /\ srs_review' = (srs_review \ {srs}) \cup {upd}
             /\ resp' = [op |-> "reset_srs", status |-> 200, vocab_id |-> vocab_id]
             /\ UNCHANGED <<vocabulary, study_log, now, tz>>

\* POST /api/review/reset/{vocab_id}
ResetSrs(vocab_id) ==
    IF SrsOf(vocab_id) = {}
    THEN /\ resp' = [op |-> "reset_srs", status |-> 404, vocab_id |-> vocab_id]
         /\ UNCHANGED <<vocabulary, srs_review, study_log, now, tz>>
    ELSE LET srs == First(SrsOf(vocab_id))
             upd == [srs EXCEPT !.interval = 0,
                                !.ease_factor = [tenth |-> 25, err |-> 0],
                                !.next_review = now,
                                !.reps = 0]
         IN  /\ srs_review' = (srs_review \ {srs}) \cup {upd}
             /\ resp' = [op |-> "reset_srs", status |-> 200, vocab_id |-> vocab_id]
             /\ UNCHANGED <<vocabulary, study_log, now, tz>>

\* db.query(SRSReview).join(Vocabulary).filter(SRSReview.next_review <= now)
DueJoined == {r \in srs_review : r.vocab_id \in vocabulary /\ r.next_review <= now}

\* db.query(SRSReview).filter(SRSReview.next_review <= now)
DueAll == {r \in srs_review : r.next_review <= now}

\* the latest review first
OrderByNextReviewDesc(rows) ==
    {p \in [1..Cardinality(rows) -> rows] :
        /\ \A i, j \in 1..Cardinality(rows) : i # j => p[i] # p[j]
        /\ \A i, j \in 1..Cardinality(rows) :
              i < j => p[i].next_review >= p[j].next_review}

\* .order_by(SRSReview.next_review.asc()): every order of the rows the sort
\* key allows; rows with equal keys come in an order SQL leaves open
OrderByNextReview(rows) ==
    {p \in [1..Cardinality(rows) -> rows] :
        /\ \A i, j \in 1..Cardinality(rows) : i # j => p[i] # p[j]
        /\ \A i, j \in 1..Cardinality(rows) :
              i < j => p[i].next_review <= p[j].next_review}

\* .limit(n)
Limit(p, n) == SubSeq(p, 1, Min(n, Len(p)))

ReviewCard(card) ==
    [id |-> card.id, vocab_id |-> card.vocab_id, interval |-> card.interval,
     ease_factor |-> card.ease_factor, reps |-> card.reps]

\* the cards that are served are put off by a day
GetReviewCardsPutOff(limit) ==
    \E p \in OrderByNextReview(DueJoined) :
        LET cards == Limit(p, limit)
            served == {cards[i] : i \in 1..Len(cards)}
        IN  /\ resp' = [op |-> "get_review_cards", status |-> 200, limit |-> limit,
                        cards |-> [i \in 1..Len(cards) |-> ReviewCard(cards[i])],
                        total |-> Cardinality(DueAll)]
            /\ srs_review' = (srs_review \ served) \cup
                                 {[r EXCEPT !.next_review = now + Days(1)] : r \in served}
            /\ UNCHANGED <<vocabulary, study_log, now, tz>>

\* GET /api/review/cards
GetReviewCards(limit) ==
    \E p \in OrderByNextReview(DueJoined) :
        LET cards == Limit(p, limit)
        IN  /\ resp' = [op |-> "get_review_cards", status |-> 200, limit |-> limit,
                        cards |-> [i \in 1..Len(cards) |-> ReviewCard(cards[i])],
                        total |-> Cardinality(DueAll)]
            /\ UNCHANGED <<vocabulary, srs_review, study_log, now, tz>>

\* the wall clock advances
Tick ==
    /\ now' = now + 1
    /\ resp' = [op |-> "tick"]
    /\ UNCHANGED <<vocabulary, srs_review, study_log, tz>>

\* the wall clock advances by a number of days
TickDays(days) ==
    /\ now' = now + Days(days)
    /\ resp' = [op |-> "tick"]
    /\ UNCHANGED <<vocabulary, srs_review, study_log, tz>>

----------------------------------------------------------------------------
(* submit_answer served in steps, next to another request.  Each request   *)
(* has its own Session; the row it read and the changes it has not yet     *)
(* committed are seen by no other Session.                                 *)

\* line 125: the SELECT of the row, 404 without row
Load(p, vocab_id, known) ==
    /\ sessions[p].pc = "idle"
    /\ IF SrsOf(vocab_id) = {}
       THEN /\ sessions' = [sessions EXCEPT ![p] =
                               [pc |-> "done", status |-> 404,
                                vocab_id |-> vocab_id, known |-> known]]
            /\ resp' = [op |-> "submit_answer", status |-> 404,
                        vocab_id |-> vocab_id, known |-> known]
       ELSE /\ sessions' = [sessions EXCEPT ![p] =
                               [pc |-> "loaded", vocab_id |-> vocab_id, known |-> known,
                                loaded |-> First(SrsOf(vocab_id))]]
            /\ UNCHANGED resp
    /\ UNCHANGED <<vocabulary, srs_review, study_log, now, tz, outcomes>>

\* lines 129-163: the StudyLog row is added and the attributes of the row
\* are set, in the Session
Compute(p) ==
    /\ sessions[p].pc = "loaded"
    /\ sessions' = [sessions EXCEPT ![p] =
                       [pc |-> "dirty", vocab_id |-> sessions[p].vocab_id,
                        known |-> sessions[p].known, loaded |-> sessions[p].loaded,
                        srs |-> ApplyAnswer(sessions[p].loaded, sessions[p].known),
                        log |-> StudyLogRow(sessions[p].vocab_id, sessions[p].known)]]
    /\ UNCHANGED <<vocabulary, srs_review, study_log, now, tz, resp, outcomes>>

\* the attributes the flush writes: those set to another value than the loaded one
Modified(s) ==
    {c \in {"interval", "ease_factor", "next_review", "reps"} : s.srs[c] # s.loaded[c]}

\* UPDATE SRS_Review SET <modified columns> WHERE id = <loaded id>
Update(row, s) ==
    [c \in DOMAIN row |-> IF c \in Modified(s) THEN s.srs[c] ELSE row[c]]

\* autocommit: the INSERT of the log row is committed on its own before the
\* UPDATE fails
FlushAutocommit(p) ==
    /\ sessions[p].pc = "dirty"
    /\ \A q \in Procs : sessions[q].pc # "flushed"
    /\ IF Modified(sessions[p]) # {}
          /\ \A r \in srs_review : r.id # sessions[p].loaded.id
       THEN /\ sessions' = [sessions EXCEPT ![p] =
                               [pc |-> "done", status |-> 500,
                                vocab_id |-> sessions[p].vocab_id,
                                known |-> sessions[p].known]]
            /\ resp' = [op |-> "submit_answer", status |-> 500,
                        vocab_id |-> sessions[p].vocab_id, known |-> sessions[p].known]
            /\ study_log' = Append(study_log, sessions[p].log)
       ELSE /\ sessions' = [sessions EXCEPT ![p].pc = "flushed"]
            /\ UNCHANGED <<resp, study_log>>
    /\ UNCHANGED <<vocabulary, srs_review, now, tz, outcomes>>

\* line 164, db.commit(), the flush: INSERT and UPDATE take the write lock
\* of the SQLite file, which one connection holds at a time; an UPDATE that
\* matches no row raises StaleDataError and the transaction is rolled back
Flush(p) ==
    /\ sessions[p].pc = "dirty"
    /\ \A q \in Procs : sessions[q].pc # "flushed"
    /\ IF Modified(sessions[p]) # {}
          /\ \A r \in srs_review : r.id # sessions[p].loaded.id
       THEN /\ sessions' = [sessions EXCEPT ![p] =
                               [pc |-> "done", status |-> 500,
                                vocab_id |-> sessions[p].vocab_id,
                                known |-> sessions[p].known]]
            /\ resp' = [op |-> "submit_answer", status |-> 500,
                        vocab_id |-> sessions[p].vocab_id, known |-> sessions[p].known]
       ELSE /\ sessions' = [sessions EXCEPT ![p].pc = "flushed"]
            /\ UNCHANGED resp
    /\ UNCHANGED <<vocabulary, srs_review, study_log, now, tz, outcomes>>

\* line 164, db.commit(), the flush while another connection holds the
\* write lock until the wait runs out: OperationalError (database is
\* locked), nothing is written
FlushLocked(p) ==
    /\ sessions[p].pc = "dirty"
    /\ \E q \in Procs : sessions[q].pc = "flushed"
    /\ sessions' = [sessions EXCEPT ![p] =
                       [pc |-> "done", status |-> 500,
                        vocab_id |-> sessions[p].vocab_id,
                        known |-> sessions[p].known]]
    /\ resp' = [op |-> "submit_answer", status |-> 500,
                vocab_id |-> sessions[p].vocab_id, known |-> sessions[p].known]
    /\ UNCHANGED <<vocabulary, srs_review, study_log, now, tz, outcomes>>

\* line 164, db.commit(), the COMMIT: the written rows reach the tables
Commit(p) ==
    /\ sessions[p].pc = "flushed"
    /\ srs_review' = {IF r.id = sessions[p].loaded.id THEN Update(r, sessions[p]) ELSE r :
                         r \in srs_review}
    /\ study_log' = Append(study_log, sessions[p].log)
    /\ sessions' = [sessions EXCEPT ![p].pc = "committed"]
    /\ UNCHANGED <<vocabulary, now, tz, resp, outcomes>>

\* lines 165-173: db.refresh(srs) reads the row again, and the response
Refresh(p) ==
    /\ sessions[p].pc = "committed"
    /\ LET rows == {r \in srs_review : r.id = sessions[p].loaded.id}
           status == IF rows = {} THEN 500 ELSE 200
       IN  /\ sessions' = [sessions EXCEPT ![p] =
                              [pc |-> "done", status |-> status,
                               vocab_id |-> sessions[p].vocab_id,
                               known |-> sessions[p].known,
                               loaded |-> sessions[p].loaded]]
           /\ resp' = IF rows = {}
                      THEN [op |-> "submit_answer", status |-> 500,
                            vocab_id |-> sessions[p].vocab_id, known |-> sessions[p].known]
                      ELSE LET srs == CHOOSE r \in rows : TRUE
                           IN  [op |-> "submit_answer", status |-> 200,
                                vocab_id |-> srs.vocab_id, known |-> sessions[p].known,
                                next_review |-> srs.next_review,
                                new_interval |-> srs.interval,
                                ease_factor |-> srs.ease_factor, reps |-> srs.reps]
    /\ UNCHANGED <<vocabulary, srs_review, study_log, now, tz, outcomes>>

----------------------------------------------------------------------------
(* Analytics: backend/api/stats.py *)

\* the calendar day of a timestamp
DayOf(t) == t \div TicksPerDay

\* datetime.replace(hour=0, minute=0, second=0, microsecond=0)
Midnight(t) == DayOf(t) * TicksPerDay

\* datetime.replace(hour=23, minute=59, second=59, microsecond=999999)
EndOfDay(t) == Midnight(t) + TicksPerDay - 1

\* datetime.date(): a Python date object
PyDate(t) == [type |-> "date", day |-> DayOf(t)]

\* func.date(column): SQLite's date() answers the text 'YYYY-MM-DD', and
\* func.date has no result type, so the row holds a Python str
FuncDate(t) == [type |-> "str", day |-> DayOf(t)]

\* d - timedelta(days=n); a str has no such difference (TypeError)
MinusDays(d, n) ==
    IF d.type = "date" THEN [ok |-> TRUE, value |-> [d EXCEPT !.day = @ - n]]
    ELSE [ok |-> FALSE]

\* a - b as a number of days; str - str raises TypeError
DateDiff(a, b) ==
    IF a.type = "date" /\ b.type = "date" THEN [ok |-> TRUE, days |-> a.day - b.day]
    ELSE [ok |-> FALSE]

\* d.strftime("%Y-%m-%d"); a str has no strftime (AttributeError)
Strftime(d) ==
    IF d.type = "date" THEN [ok |-> TRUE, value |-> d.day]
    ELSE [ok |-> FALSE]

\* round(part / whole * 100, 1), in tenths of a percent.  The exact quotient
\* lies halfway between two tenths only when whole is a multiple of 16.
PercentTenths(part, whole) ==
    IF whole = 0 THEN 0
    ELSE LET q == (1000 * part) \div whole
             r == (1000 * part) % whole
         IN  IF 2 * r < whole THEN q
             ELSE IF 2 * r > whole THEN q + 1
             ELSE RoundHalfEven(q)

\* the days of a set, latest first
RECURSIVE Descending(_)
Descending(S) ==
    IF S = {} THEN <<>>
    ELSE LET d == CHOOSE x \in S : \A y \in S : y <= x
         IN  <<d>> \o Descending(S \ {d})

\* db.query(func.count(Vocabulary.id))
TotalWords == Cardinality(vocabulary)

\* db.query(func.count(SRSReview.id)).filter(SRSReview.reps > 0)
LearnedWords == Cardinality({r \in srs_review : r.reps > 0})

\* a row counts as mastered only above the threshold
MasteredWordsAbove == Cardinality({r \in srs_review : r.reps > MASTERY_THRESHOLD_REPS})

\* db.query(func.count(SRSReview.id)).filter(SRSReview.reps >= MASTERY_THRESHOLD_REPS)
MasteredWords == Cardinality({r \in srs_review : r.reps >= MASTERY_THRESHOLD_REPS})

\* db.query(func.count(SRSReview.id)).filter(SRSReview.next_review <= today_end)
DueToday == Cardinality({r \in srs_review : r.next_review <= EndOfDay(now)})

\* GET /api/stats/overview
GetOverviewStats ==
    /\ resp' = [op |-> "get_overview_stats", status |-> 200,
                total_words |-> TotalWords,
                learned_words |-> LearnedWords,
                mastered_words |-> MasteredWords,
                new_words |-> TotalWords - LearnedWords,
                due_today |-> DueToday,
                learning_progress |-> PercentTenths(LearnedWords, TotalWords)]
    /\ UNCHANGED <<vocabulary, srs_review, study_log, now, tz>>

\* the Study_Log rows with studied_at >= start_date
LogSince(start_date) == {i \in 1..Len(study_log) : study_log[i].studied_at >= start_date}

\* the rows of daily_stats_query as a dict: study_date -> total, correct, incorrect
StatsByDate(start_date) ==
    [k \in {FuncDate(study_log[i].studied_at) : i \in LogSince(start_date)} |->
        LET rows == {i \in LogSince(start_date) : FuncDate(study_log[i].studied_at) = k}
        IN  [total |-> Cardinality(rows),
             correct |-> Cardinality({i \in rows : study_log[i].known}),
             incorrect |-> Cardinality({i \in rows : ~study_log[i].known})]]

\* first_success_subq: vocab_id -> min(studied_at) of its rows with known
FirstSuccess ==
    [v \in {study_log[i].vocab_id : i \in {j \in 1..Len(study_log) : study_log[j].known}} |->
        LET times == {study_log[i].studied_at :
                         i \in {j \in 1..Len(study_log) :
                                   study_log[j].known /\ study_log[j].vocab_id = v}}
        IN  CHOOSE t \in times : \A u \in times : t <= u]

\* the rows of new_words_query as a dict: success_date -> count
NewWordsByDate(start_date) ==
    LET firsts == {v \in DOMAIN FirstSuccess : FirstSuccess[v] >= start_date}
    IN  [k \in {FuncDate(FirstSuccess[v]) : v \in firsts} |->
            Cardinality({v \in firsts : FuncDate(FirstSuccess[v]) = k})]

\* dict.get(key, default)
DictGet(dict, key, default) == IF key \in DOMAIN dict THEN dict[key] ELSE default

\* the DailyStats of the day i days before today
DailyStatsOf(i, start_date) ==
    LET date == Midnight(now) - Days(i)
        date_key == PyDate(date)
        stats == DictGet(StatsByDate(start_date), date_key,
                         [total |-> 0, correct |-> 0, incorrect |-> 0])
    IN  [date |-> DayOf(date),
         total_reviews |-> stats.total,
         correct |-> stats.correct,
         incorrect |-> stats.incorrect,
         accuracy |-> PercentTenths(stats.correct, stats.total),
         new_words_learned |-> DictGet(NewWordsByDate(start_date), date_key, 0)]

\* GET /api/stats/daily?days=
GetDailyStats(days) ==
    LET start_date == Midnight(now) - Days(days - 1)
    IN  /\ resp' = [op |-> "get_daily_stats", status |-> 200, days |-> days,
                    stats |-> [j \in 1..days |-> DailyStatsOf(days - j, start_date)]]
        /\ UNCHANGED <<vocabulary, srs_review, study_log, now, tz>>

\* SELECT DISTINCT date(studied_at) ... ORDER BY date(studied_at) DESC
StudyDates ==
    LET days == Descending({DayOf(study_log[i].studied_at) : i \in 1..Len(study_log)})
    IN  [j \in 1..Len(days) |-> FuncDate(days[j] * TicksPerDay)]

\* the loop of current_streak over the dates not yet visited
RECURSIVE CurrentStreakLoop(_, _, _)
CurrentStreakLoop(dates, check_date, current_streak) ==
    IF dates = <<>> THEN [ok |-> TRUE, value |-> current_streak]
    ELSE LET d == Head(dates)
             yesterday == MinusDays(check_date, 1)
         IN  IF ~yesterday.ok THEN [ok |-> FALSE]
             ELSE IF d = check_date \/ d = yesterday.value
             THEN LET before == MinusDays(d, 1)
                  IN  IF ~before.ok THEN [ok |-> FALSE]
                      ELSE CurrentStreakLoop(Tail(dates), before.value, current_streak + 1)
             ELSE [ok |-> TRUE, value |-> current_streak]

\* the loop of longest_streak from index i (counted from 1) on
RECURSIVE LongestStreakLoop(_, _, _, _)
LongestStreakLoop(sorted_dates, i, current_run, longest_streak) ==
    IF i > Len(sorted_dates) THEN [ok |-> TRUE, value |-> longest_streak]
    ELSE LET diff == DateDiff(sorted_dates[i - 1], sorted_dates[i])
         IN  IF ~diff.ok THEN [ok |-> FALSE]
             ELSE IF diff.days = 1
             THEN LongestStreakLoop(sorted_dates, i + 1, current_run + 1,
                                    Max(longest_streak, current_run + 1))
             ELSE LongestStreakLoop(sorted_dates, i + 1, 1, longest_streak)

\* last_study_date=None
NoDate == [type |-> "None"]

\* GET /api/stats/streak; an exception in the handler is answered 500
GetStreakInfo ==
    LET dates == StudyDates
        current == CurrentStreakLoop(dates, PyDate(now), 0)
        longest == LongestStreakLoop(dates, 2, 1, 1)
        last == Strftime(dates[1])
    IN  /\ resp' =
               IF dates = <<>>
               THEN [op |-> "get_streak_info", status |-> 200, current_streak |-> 0,
                     longest_streak |-> 0, last_study_date |-> NoDate]
               ELSE IF ~current.ok \/ ~longest.ok \/ ~last.ok
               THEN [op |-> "get_streak_info", status |-> 500]
               ELSE [op |-> "get_streak_info", status |-> 200,
                     current_streak |-> current.value,
                     longest_streak |-> Max(longest.value, current.value),
                     last_study_date |-> [type |-> "str", day |-> last.value]]
        /\ UNCHANGED <<vocabulary, srs_review, study_log, now, tz>>

\* the rows of daily_stats_query of get_accuracy_trend as a dict:
\* study_date -> total, correct
TrendByDate(start_date) ==
    [k \in {FuncDate(study_log[i].studied_at) : i \in LogSince(start_date)} |->
        LET rows == {i \in LogSince(start_date) : FuncDate(study_log[i].studied_at) = k}
        IN  [total |-> Cardinality(rows),
             correct |-> Cardinality({i \in rows : study_log[i].known})]]

\* dates, accuracy and total_reviews of the day i days before today
TrendOf(i, start_date) ==
    LET date == Midnight(now) - Days(i)
        stats == DictGet(TrendByDate(start_date), PyDate(date),
                         [total |-> 0, correct |-> 0])
    IN  [date |-> DayOf(date),
         accuracy |-> PercentTenths(stats.correct, stats.total),
         total_reviews |-> stats.total]

\* the AccuracyData of get_accuracy_trend(days), as one sequence of days
AccuracyData(days) ==
    [j \in 1..days |-> TrendOf(days - j, Midnight(now) - Days(days - 1))]

\* GET /api/stats/accuracy?days=
GetAccuracyTrend(days) ==
    /\ resp' = [op |-> "get_accuracy_trend", status |-> 200, days |-> days,
                trend |-> AccuracyData(days)]
    /\ UNCHANGED <<vocabulary, srs_review, study_log, now, tz>>

\* the OverviewStats of get_overview_stats(db)
OverviewStats ==
    [total_words |-> TotalWords,
     learned_words |-> LearnedWords,
     mastered_words |-> MasteredWords,
     new_words |-> TotalWords - LearnedWords,
     due_today |-> DueToday,
     learning_progress |-> PercentTenths(LearnedWords, TotalWords)]

\* the list of get_daily_stats(days=, db=)
DailyStatsList(days) ==
    [j \in 1..days |-> DailyStatsOf(days - j, Midnight(now) - Days(days - 1))]

\* the StreakInfo of get_streak_info(db), or the exception it raises
StreakInfo ==
    LET dates == StudyDates
        current == CurrentStreakLoop(dates, PyDate(now), 0)
        longest == LongestStreakLoop(dates, 2, 1, 1)
        last == Strftime(dates[1])
    IN  IF dates = <<>>
        THEN [ok |-> TRUE, current_streak |-> 0, longest_streak |-> 0,
              last_study_date |-> NoDate]
        ELSE IF ~current.ok \/ ~longest.ok \/ ~last.ok
        THEN [ok |-> FALSE]
        ELSE [ok |-> TRUE, current_streak |-> current.value,
              longest_streak |-> Max(longest.value, current.value),
              last_study_date |-> [type |-> "str", day |-> last.value]]

\* GET /api/stats/dashboard: the four results in one response; an
\* exception of one of them is answered 500
GetDashboard ==
    /\ resp' = IF StreakInfo.ok
               THEN [op |-> "get_dashboard", status |-> 200,
                     overview |-> OverviewStats,
                     recent_daily_stats |-> DailyStatsList(DASHBOARD_DAILY_STATS_DAYS),
                     accuracy_trend |-> AccuracyData(DASHBOARD_ACCURACY_TREND_DAYS),
                     streak |-> StreakInfo]
               ELSE [op |-> "get_dashboard", status |-> 500]
    /\ UNCHANGED <<vocabulary, srs_review, study_log, now, tz>>

----------------------------------------------------------------------------
(* The system: every operation, any item, the clock running *)

Next ==
    \/ (Cardinality(vocabulary) < MaxVocab /\ NextRowId(vocabulary) <= MaxVocab
        /\ CreateVocabulary /\ UNCHANGED alone)
    \/ \E v \in RequestIds : DeleteVocabulary(v) /\ UNCHANGED alone
    \/ \E v \in RequestIds, k \in BOOLEAN :
          Len(study_log) < MaxLog /\ SubmitAnswer(v, k) /\ UNCHANGED alone
    \/ \E v \in RequestIds : ResetSrs(v) /\ UNCHANGED alone
    \/ \E l \in Limits : GetReviewCards(l) /\ UNCHANGED alone
    \/ (now < MaxTime /\ Tick /\ UNCHANGED alone)

Spec == Init /\ [][Next]_vars

(* The schedule engine: one item created at time 0, answered and reset *)

InitEngine ==
    /\ vocabulary = {1}
    /\ tz \in TzOffsets
    /\ now = 0
    /\ srs_review = {[id |-> 1, vocab_id |-> 1, interval |-> DEFAULT_INTERVAL,
                      ease_factor |-> DEFAULT_EASE_FACTOR, next_review |-> 0 - tz,
                      reps |-> DEFAULT_REPS]}
    /\ study_log = <<>>
    /\ resp = [op |-> "create_vocabulary", status |-> 201, id |-> 1]
    /\ sessions = [p \in Procs |-> NoSession]
    /\ outcomes = <<>>

NextEngine ==
    \/ \E k \in BOOLEAN :
          Len(study_log) < MaxEngineLog /\ SubmitAnswer(1, k) /\ UNCHANGED alone
    \/ (ResetSrs(1) /\ UNCHANGED alone)

SpecEngine == InitEngine /\ [][NextEngine]_vars

(* The schedule engine with the answers since the last reset written down *)

NextReplay ==
    \/ \E k \in BOOLEAN :
          /\ Len(study_log) < MaxEngineLog
          /\ SubmitAnswer(1, k)
          /\ outcomes' = Append(outcomes, k)
          /\ UNCHANGED sessions
    \/ (ResetSrs(1) /\ outcomes' = <<>> /\ UNCHANGED sessions)

SpecReplay == InitEngine /\ [][NextReplay]_vars

(* The vocabulary: every way to create an item, and delete, answer, reset *)

Files == UNION {[1..n -> RowKinds] : n \in 0..MaxRows}

Fits(n) == Cardinality(vocabulary) + n <= MaxVocab /\ NextRowId(vocabulary) + n - 1 <= MaxVocab

NextCatalog ==
    \/ (Fits(1) /\ CreateVocabulary /\ UNCHANGED alone)
    \/ \E n \in 0..MaxRows : Fits(n) /\ CreateVocabularyBulk(n) /\ UNCHANGED alone
    \/ \E items \in Files, skip \in BOOLEAN :
          /\ FileRows(items) /\ Fits(Imported(items, skip))
          /\ ImportVocabCsv(items, skip) /\ UNCHANGED alone
    \/ \E items \in Files, skip \in BOOLEAN :
          /\ FileRows(items) /\ Fits(Imported(items, skip))
          /\ ImportVocabJson(items, skip) /\ UNCHANGED alone
    \/ \E items \in Files, skip \in BOOLEAN :
          /\ FileRows(items) /\ Fits(Imported(items, skip))
          /\ ImportAllJson(items, skip) /\ UNCHANGED alone
    \/ \E v \in RequestIds : DeleteVocabulary(v) /\ UNCHANGED alone
    \/ \E v \in RequestIds, k \in BOOLEAN :
          Len(study_log) < MaxLog /\ SubmitAnswer(v, k) /\ UNCHANGED alone
    \/ \E v \in RequestIds : ResetSrs(v) /\ UNCHANGED alone
    \/ (now < MaxShortTime /\ Tick /\ UNCHANGED alone)

SpecCatalog == Init /\ [][NextCatalog]_vars

(* Two submit_answer requests at the same time, after some answers served alone *)

NextRace ==
    \/ \E k \in BOOLEAN :
          /\ \A p \in Procs : sessions[p].pc = "idle"
          /\ Len(study_log) < MaxLog
          /\ SubmitAnswer(1, k)
          /\ UNCHANGED alone
    \/ \E p \in Procs, v \in VocabIds, k \in BOOLEAN : Load(p, v, k)
    \/ \E p \in Procs : Compute(p)
    \/ \E p \in Procs : Flush(p)
    \/ \E p \in Procs : Commit(p)
    \/ \E p \in Procs : Refresh(p)
    \/ (now < MaxTime /\ Tick /\ UNCHANGED alone)

SpecRace == InitEngine /\ [][NextRace]_vars

(* submit_answer requests next to each other and to delete and create: *)
(* commits that fail                                                   *)

NextAtomic ==
    \/ \E k \in BOOLEAN :
          /\ \A p \in Procs : sessions[p].pc = "idle"
          /\ Len(study_log) < MaxLog
          /\ SubmitAnswer(1, k)
          /\ UNCHANGED alone
    \/ (/\ \A p \in Procs : sessions[p].pc # "flushed"
        /\ Cardinality(vocabulary) < MaxVocab
        /\ CreateVocabulary
        /\ UNCHANGED alone)
    \/ \E v \in VocabIds :
          /\ \A p \in Procs : sessions[p].pc # "flushed"
          /\ DeleteVocabulary(v)
          /\ UNCHANGED alone
    \/ \E p \in Procs, v \in VocabIds, k \in BOOLEAN : Load(p, v, k)
    \/ \E p \in Procs : Compute(p)
    \/ \E p \in Procs : Flush(p)
    \/ \E p \in Procs : FlushLocked(p)
    \/ \E p \in Procs : Commit(p)
    \/ \E p \in Procs : Refresh(p)

SpecAtomic == InitEngine /\ [][NextAtomic]_vars

----------------------------------------------------------------------------
(* The schedule engine with a clock that runs for years: answers are given *)
(* until MaxDueTime, and time passes until the item is due                 *)

\* time passes, as long as an item is waiting for its review or the time
\* is before MaxDueTime
Wait ==
    /\ \/ now < MaxDueTime
       \/ \E r \in srs_review : r.next_review > now
    /\ TickDays(MAX_INTERVAL)

NextDue ==
    \/ \E k \in BOOLEAN :
          /\ Len(study_log) < MaxEngineLog
          /\ now <= MaxDueTime
          /\ SubmitAnswer(1, k)
          /\ UNCHANGED alone
    \/ (ResetSrs(1) /\ UNCHANGED alone)
    \/ \E l \in Limits : GetReviewCards(l) /\ UNCHANGED alone
    \/ (Wait /\ UNCHANGED alone)

SpecDue == InitEngine /\ [][NextDue]_vars

\* time does not stop
FairDue == SpecDue /\ WF_vars(Wait /\ UNCHANGED alone)

----------------------------------------------------------------------------
(* The analytics of the log: items answered and reset on several days *)

NextStats ==
    \/ (Cardinality(vocabulary) < MaxVocab /\ CreateVocabulary /\ UNCHANGED alone)
    \/ \E v \in VocabIds, k \in BOOLEAN :
          Len(study_log) < MaxLog /\ SubmitAnswer(v, k) /\ UNCHANGED alone
    \/ \E v \in VocabIds : ResetSrs(v) /\ UNCHANGED alone
    \/ \E days \in 1..MaxDays : GetDailyStats(days) /\ UNCHANGED alone
    \/ (GetStreakInfo /\ UNCHANGED alone)
    \/ (now < MaxTime /\ Tick /\ UNCHANGED alone)

SpecStats == Init /\ [][NextStats]_vars

(* The queries: the analytics and the due queue, next to the writes *)

NextRead ==
    \/ (Cardinality(vocabulary) < MaxVocab /\ CreateVocabulary /\ UNCHANGED alone)
    \/ \E v \in VocabIds, k \in BOOLEAN :
          Len(study_log) < MaxLog /\ SubmitAnswer(v, k) /\ UNCHANGED alone
    \/ (GetOverviewStats /\ UNCHANGED alone)
    \/ \E days \in 1..MaxDays : GetDailyStats(days) /\ UNCHANGED alone
    \/ \E days \in {MIN_ACCURACY_TREND_DAYS, DASHBOARD_ACCURACY_TREND_DAYS} :
          GetAccuracyTrend(days) /\ UNCHANGED alone
    \/ (GetStreakInfo /\ UNCHANGED alone)
    \/ (GetDashboard /\ UNCHANGED alone)
    \/ \E l \in Limits : GetReviewCards(l) /\ UNCHANGED alone
    \/ (now < MaxTime /\ Tick /\ UNCHANGED alone)

SpecRead == Init /\ [][NextRead]_vars

(* Create, answer and reset with the log rows written since the creation *)
(* or the last reset of their item kept in outcomes                      *)

NextLearned ==
    \/ (Cardinality(vocabulary) < MaxVocab /\ CreateVocabulary /\ UNCHANGED alone)
    \/ \E v \in VocabIds, k \in BOOLEAN :
          /\ Len(study_log) < MaxOverviewLog
          /\ SubmitAnswer(v, k)
          /\ outcomes' = IF resp'.status = 200
                         THEN Append(outcomes, study_log'[Len(study_log')])
                         ELSE outcomes
          /\ UNCHANGED sessions
    \/ \E v \in VocabIds :
          /\ ResetSrs(v)
          /\ outcomes' = IF resp'.status = 200
                         THEN SelectSeq(outcomes, LAMBDA e : e.vocab_id # v)
                         ELSE outcomes
          /\ UNCHANGED sessions
    \/ (GetOverviewStats /\ UNCHANGED alone)

SpecLearned == Init /\ [][NextLearned]_vars

----------------------------------------------------------------------------
(* The overview of a vocabulary that is learned to mastery *)

NextOverview ==
    \/ (Cardinality(vocabulary) < MaxOverviewVocab /\ CreateVocabulary /\ UNCHANGED alone)
    \/ \E v \in 1..MaxOverviewVocab, k \in BOOLEAN :
          Len(study_log) < MaxOverviewLog /\ SubmitAnswer(v, k) /\ UNCHANGED alone
    \/ (GetOverviewStats /\ UNCHANGED alone)
    \/ (now < MaxShortTime /\ Tick /\ UNCHANGED alone)

SpecOverview == Init /\ [][NextOverview]_vars

----------------------------------------------------------------------------
(* Properties of the schedule engine *)

\* the row of the answered item before and after a step
RowAfter(r) == CHOOSE q \in srs_review' : q.id = r.id

\* the step is a successful submit_answer for the item of row r
Answered(r, known) ==
    /\ resp'.op = "submit_answer"
    /\ resp'.status = 200
    /\ resp'.vocab_id = r.vocab_id
    /\ resp'.known = known

\* C1: in every state reached from item creation by submit_answer and
\* reset_srs, every SRS_Review row has 1.3 <= ease_factor <= 2.5 and
\* 0 <= interval <= 365.
C1_Bounds ==
    \A r \in srs_review :
        /\ ~FLess(r.ease_factor, [tenth |-> 13, err |-> 8])
        /\ ~FLess([tenth |-> 25, err |-> 0], r.ease_factor)
        /\ 0 <= r.interval
        /\ r.interval <= 365

\* seven right answers in a row on a fresh item: 238 * 2.5 = 595 is cut to 365
C1_Witness ==
    /\ resp.op = "submit_answer"
    /\ resp.status = 200
    /\ resp.known
    /\ resp.reps = 7
    /\ resp.new_interval = 365
    /\ Len(study_log) = 7
    /\ \A i \in 1..7 : study_log[i].known

\* C2: a wrong answer leaves reps as it is, a right answer adds exactly 1;
\* reps of an item goes down in no step but a reset_srs, which makes it 0.
C2_Reps ==
    [][\A r \in srs_review :
          (\E q \in srs_review' : q.id = r.id) =>
              /\ Answered(r, FALSE) => RowAfter(r).reps = r.reps
              /\ Answered(r, TRUE) => RowAfter(r).reps = r.reps + 1
              /\ RowAfter(r).reps < r.reps =>
                    /\ resp'.op = "reset_srs"
                    /\ resp'.status = 200
                    /\ resp'.vocab_id = r.vocab_id
                    /\ RowAfter(r).reps = 0]_vars

\* a wrong answer after three right ones: reps is still 3
C2_Witness ==
    /\ resp.op = "submit_answer"
    /\ resp.status = 200
    /\ ~resp.known
    /\ resp.reps = 3
    /\ \E i \in 1..Len(study_log) : study_log[i].known

\* an integer nearest to interval * tenth / 10
Nearest(X, interval, tenth) ==
    /\ 10 * X - interval * tenth <= 5
    /\ interval * tenth - 10 * X <= 5

\* C3: a right answer gives interval min(X, 365), X = 1 when reps = 0, 6
\* when reps = 1, otherwise interval * ease_factor rounded to a nearest
\* integer, with the ease factor held before the answer; ease_factor
\* becomes min(ease_factor + 0.1, 2.5): the decimal tenth goes up by one up
\* to 25, and the double is the correctly rounded sum (within half a unit
\* in the last place, 40 units, of old + 0.1) or exactly 2.5; reps + 1.
C3_Known ==
    [][\A r \in srs_review :
          Answered(r, TRUE) =>
              LET q == RowAfter(r)
                  sum == r.ease_factor.err + 1
              IN  /\ r.reps = 0 => q.interval = 1
                  /\ r.reps = 1 => q.interval = 6
                  /\ r.reps >= 2 =>
                        \E X \in 0..1000 :
                            /\ Nearest(X, r.interval, r.ease_factor.tenth)
                            /\ q.interval = Min(X, 365)
                  /\ q.ease_factor.tenth = Min(r.ease_factor.tenth + 1, 25)
                  /\ \/ q.ease_factor = [tenth |-> 25, err |-> 0]
                     \/ /\ q.ease_factor.err - sum <= 40
                        /\ sum - q.ease_factor.err <= 40
                  /\ q.reps = r.reps + 1
                  /\ (r.interval = 0 /\ r.ease_factor = [tenth |-> 25, err |-> 0]
                        /\ r.reps = 0)
                     => (q.interval = 1 /\ q.ease_factor = [tenth |-> 25, err |-> 0]
                           /\ q.reps = 1)]_vars

\* a right answer on (interval 6, ease 1.9, reps >= 2): round(11.4) = 11
C3_Witness ==
    /\ resp.op = "submit_answer"
    /\ resp.status = 200
    /\ resp.known
    /\ resp.reps >= 3
    /\ resp.new_interval = 11
    /\ resp.ease_factor.tenth = 20

\* C4: a wrong answer gives interval 1, ease_factor max(ease_factor - 0.2,
\* 1.3) (the decimal tenth goes down by two down to 13, the double is the
\* correctly rounded difference or the double 1.3) and reps unchanged,
\* whatever interval and reps were; (10, 2.0, 3) becomes (1, 1.8, 3).
C4_Unknown ==
    [][/\ \A r \in srs_review :
            Answered(r, FALSE) =>
                LET q == RowAfter(r)
                    diff == r.ease_factor.err - 2
                IN  /\ q.interval = 1
                    /\ q.ease_factor.tenth = Max(r.ease_factor.tenth - 2, 13)
                    /\ \/ q.ease_factor = [tenth |-> 13, err |-> 8]
                       \/ /\ q.ease_factor.err - diff <= 40
                          /\ diff - q.ease_factor.err <= 40
                    /\ q.reps = r.reps
       /\ LET q == ApplyAnswer([id |-> 1, vocab_id |-> 1, interval |-> 10,
                                ease_factor |-> [tenth |-> 20, err |-> 0],
                                next_review |-> 0, reps |-> 3], FALSE)
          IN  /\ q.interval = 1
              /\ q.ease_factor = [tenth |-> 18, err |-> 8]
              /\ q.reps = 3]_vars

\* a wrong answer on an item of interval 15 with three right answers
C4_Witness ==
    /\ resp.op = "submit_answer"
    /\ resp.status = 200
    /\ ~resp.known
    /\ resp.reps = 3
    /\ resp.new_interval = 1
    /\ resp.ease_factor.tenth = 23
    /\ Len(study_log) = 4

----------------------------------------------------------------------------
(* Properties of the operations on the store *)

\* C5: after every successful submit_answer, right or wrong, next_review of
\* the item is the time of the answer plus the new interval in days, and
\* the response carries that date and that interval.
C5_NextReview ==
    (resp.op = "submit_answer" /\ resp.status = 200) =>
        /\ SrsOf(resp.vocab_id) # {}
        /\ \A r \in SrsOf(resp.vocab_id) :
              /\ r.next_review = now + r.interval * TicksPerDay
              /\ resp.next_review = r.next_review
              /\ resp.new_interval = r.interval

\* the second right answer, given after the clock has moved: due in 6 days
C5_Witness ==
    /\ resp.op = "submit_answer"
    /\ resp.status = 200
    /\ resp.known
    /\ resp.new_interval = 6
    /\ now > 0
    /\ resp.next_review = now + 6 * TicksPerDay

C7_NotFound ==
    [][\A v \in RequestIds :
          (resp'.op = "submit_answer" /\ resp'.vocab_id = v) =>
              IF SrsOf(v) = {}
              THEN /\ resp'.status = 404
                   /\ UNCHANGED <<vocabulary, srs_review, study_log>>
              ELSE resp'.status = 200]_vars

\* a 404 while another item exists and has been answered
C7_Witness ==
    /\ resp.op = "submit_answer"
    /\ resp.status = 404
    /\ SrsOf(resp.vocab_id) = {}
    /\ srs_review # {}
    /\ Len(study_log) > 0

\* the SRS_Review rows of the cards of the last get_review_cards
CardRow(i) == CHOOSE r \in srs_review : r.id = resp.cards[i].id

\* C8: get_review_cards returns only rows with next_review <= now, in
\* ascending order of next_review, no row twice, and no due row left out
\* is due earlier than a returned one.
C8_DueCards ==
    resp.op = "get_review_cards" =>
        LET n == Len(resp.cards)
            ids == {resp.cards[i].id : i \in 1..n}
        IN  /\ \A i \in 1..n :
                  /\ \E r \in srs_review : r.id = resp.cards[i].id
                  /\ CardRow(i).next_review <= now
                  /\ ReviewCard(CardRow(i)) = resp.cards[i]
            /\ \A i, j \in 1..n :
                  i < j => /\ CardRow(i).next_review <= CardRow(j).next_review
                           /\ resp.cards[i].id # resp.cards[j].id
            /\ n <= resp.limit
            /\ \A q \in srs_review :
                  (q.next_review <= now /\ q.id \notin ids) =>
                      /\ n = resp.limit
                      /\ \A i \in 1..n : CardRow(i).next_review <= q.next_review

\* limit 1 cuts a queue of two rows due at different times
C8_Witness ==
    /\ resp.op = "get_review_cards"
    /\ resp.limit = 1
    /\ Len(resp.cards) = 1
    /\ \E q \in srs_review :
          /\ q.next_review <= now
          /\ q.next_review > CardRow(1).next_review

\* C9: total is the number of SRS_Review rows with next_review <= now,
\* whatever the limit, and the number of cards is min(limit, total).
C9_Total ==
    resp.op = "get_review_cards" =>
        /\ resp.total = Cardinality({r \in srs_review : r.next_review <= now})
        /\ Len(resp.cards) = Min(resp.limit, resp.total)

\* a query after a vocabulary that was answered has been deleted
C9_Witness ==
    /\ resp.op = "get_review_cards"
    /\ resp.total = 1
    /\ Len(resp.cards) = 1
    /\ resp.limit = 2
    /\ \E i \in 1..Len(study_log) : study_log[i].vocab_id \notin vocabulary

\* C10: reset_srs of an item with SRS_Review row sets interval 0,
\* ease_factor 2.5, reps 0, next_review now, and leaves the log, the
\* vocabulary and every other row alone; without row it answers 404 and
\* changes nothing.
C10_Reset ==
    [][\A v \in RequestIds :
          (resp'.op = "reset_srs" /\ resp'.vocab_id = v) =>
              IF SrsOf(v) = {}
              THEN /\ resp'.status = 404
                   /\ UNCHANGED <<vocabulary, srs_review, study_log>>
              ELSE /\ resp'.status = 200
                   /\ UNCHANGED <<vocabulary, study_log>>
                   /\ \A r \in srs_review : r.vocab_id # v => r \in srs_review'
                   /\ \A q \in srs_review' :
                         \/ q.vocab_id # v /\ q \in srs_review
                         \/ /\ q.vocab_id = v
                            /\ q.interval = 0
                            /\ q.ease_factor = [tenth |-> 25, err |-> 0]
                            /\ q.reps = 0
                            /\ q.next_review = now
                            /\ \E r \in srs_review : r.id = q.id
                   /\ Cardinality(srs_review') = Cardinality(srs_review)]_vars

\* the reset of an item answered twice, wrong then right, while another
\* item exists
C10_Witness ==
    /\ resp.op = "reset_srs"
    /\ resp.status = 200
    /\ Cardinality(srs_review) = 2
    /\ Len(study_log) = 2
    /\ \A i \in 1..2 : study_log[i].vocab_id = resp.vocab_id
    /\ ~study_log[1].known
    /\ study_log[2].known
    /\ now > study_log[2].studied_at

----------------------------------------------------------------------------
(* Replay after a reset *)

\* the schedule of a row
Schedule(r) == <<r.interval, r.ease_factor, r.reps>>

\* the row of a freshly created item after the answers S
RECURSIVE Replay(_)
Replay(S) ==
    IF S = <<>> THEN NewSrs(1)
    ELSE ApplyAnswer(Replay(SubSeq(S, 1, Len(S) - 1)), S[Len(S)])

\* C11: whatever was answered before, after a reset and the answers S an
\* item has the interval, ease_factor and reps that a freshly created item
\* has after the same answers S, and so it has after every later reset and
\* replay of S.
C11_Replay ==
    \A r \in srs_review : Schedule(r) = Schedule(Replay(outcomes))

\* right, right, wrong, right after a reset that followed two wrong and two
\* right answers, which had left ease_factor 2.3 and reps 2
C11_Witness ==
    /\ resp.op = "submit_answer"
    /\ outcomes = <<TRUE, TRUE, FALSE, TRUE>>
    /\ Len(study_log) = 8
    /\ \A i \in 1..2 : ~study_log[i].known
    /\ \A i \in 3..4 : study_log[i].known
    /\ \A i \in 1..4 : study_log[4 + i].known = outcomes[i]
    /\ \E r \in srs_review : r.ease_factor # DEFAULT_EASE_FACTOR /\ r.reps = 3

----------------------------------------------------------------------------
(* Requests at the same time *)

\* C17: two submit_answer requests for the same item that are served at
\* the same time lose no update: however their reads, computations, writes
\* and commits interleave, in the end the row has the interval, ease_factor
\* and reps of one answer applied after the other, in one of the two
\* orders, and the log has a row for each of the two answers.
C17_NoLostUpdate ==
    (\A p \in Procs : /\ sessions[p].pc = "done"
                      /\ sessions[p].status = 200
                      /\ sessions[p].vocab_id = 1) =>
        \E x, y \in Procs :
            /\ x # y
            /\ \A r \in SrsOf(1) :
                  Schedule(r) =
                      Schedule(ApplyAnswer(ApplyAnswer(sessions[x].loaded, sessions[x].known),
                                           sessions[y].known))
            /\ Len(study_log) >= 2
            /\ study_log[Len(study_log) - 1].known = sessions[x].known
            /\ study_log[Len(study_log)].known = sessions[y].known

----------------------------------------------------------------------------
(* Properties of the tables *)

\* C18: delete_vocabulary of an item removes its SRS_Review row and all
\* its Study_Log rows, so an item created later never starts with log rows
\* of a deleted one; no other operation removes an SRS_Review row or a
\* Study_Log row.
C18_Cascade ==
    [][/\ (resp'.op = "delete_vocabulary" /\ resp'.status = 204) =>
             /\ \A r \in srs_review' : r.vocab_id # resp'.vocab_id
             /\ \A i \in 1..Len(study_log') : study_log'[i].vocab_id # resp'.vocab_id
       /\ (resp'.op = "create_vocabulary") =>
             \A i \in 1..Len(study_log') : study_log'[i].vocab_id # resp'.id
       /\ (resp'.op # "delete_vocabulary") =>
             /\ SrsIds \subseteq {r.id : r \in srs_review'}
             /\ Len(study_log') >= Len(study_log)
             /\ SubSeq(study_log', 1, Len(study_log)) = study_log]_vars

\* C19: in every state each Vocabulary row has exactly one SRS_Review row
\* and each SRS_Review row belongs to a Vocabulary row; the single create,
\* the bulk create and the CSV and JSON imports add, with each item, one
\* row with interval 0, ease_factor 2.5 and reps 0; no operation adds a
\* second row or leaves a row without item.
C19_OneToOne ==
    [][/\ \A v \in vocabulary' : Cardinality({r \in srs_review' : r.vocab_id = v}) = 1
       /\ \A r \in srs_review' : r.vocab_id \in vocabulary'
       /\ \A v \in vocabulary' \ vocabulary :
             \A r \in srs_review' :
                 r.vocab_id = v =>
                     /\ r.interval = 0
                     /\ r.ease_factor = [tenth |-> 25, err |-> 0]
                     /\ r.reps = 0]_vars

\* a JSON file with a stored word and a new one, imported next to an item
\* that has been answered right
C19_Witness ==
    /\ resp.op = "import_vocab_json"
    /\ resp.status = 200
    /\ resp.vocabulary_imported = 1
    /\ resp.vocabulary_skipped = 1
    /\ Cardinality(vocabulary) = 2
    /\ \E r \in srs_review : r.reps = 1
    /\ \E r \in srs_review : r.reps = 0 /\ r.vocab_id = 2

\* C20: every timestamp is taken from one clock: next_review as written by
\* create, submit and reset and the now of get_review_cards and of the
\* overview, so whatever the UTC offset of the server an item is due from
\* its creation on, until it is answered.
C20_OneClock ==
    \A r \in srs_review :
        (r.vocab_id \in vocabulary /\ r.interval = 0) => r \in DueJoined

----------------------------------------------------------------------------
(* Properties of the analytics *)

ReadOps ==
    {"get_overview_stats", "get_daily_stats", "get_accuracy_trend",
     "get_streak_info", "get_dashboard", "get_review_cards"}

\* C21: get_overview_stats, get_daily_stats, get_accuracy_trend,
\* get_streak_info, get_dashboard and get_review_cards leave every
\* SRS_Review row, every Vocabulary row and the Study_Log as they are.
C21_ReadOnly ==
    [][resp'.op \in ReadOps => UNCHANGED <<vocabulary, srs_review, study_log>>]_vars

\* the dashboard asked for two items that are due, one of them answered
C21_Witness ==
    /\ resp.op = "get_dashboard"
    /\ Cardinality(vocabulary) = 2
    /\ Cardinality(DueJoined) = 2
    /\ Len(study_log) = 1

\* the calendar days with at least one Study_Log row
StudyDays == {DayOf(study_log[i].studied_at) : i \in 1..Len(study_log)}

\* the latest of them
LastStudyDay == CHOOSE d \in StudyDays : \A e \in StudyDays : e <= d

\* the number of study days without a gap that end with day d
RECURSIVE RunEndingAt(_)
RunEndingAt(d) == IF d \notin StudyDays THEN 0 ELSE 1 + RunEndingAt(d - 1)

\* C12: get_streak_info answers current_streak 0 when the latest study day
\* is before yesterday, else the number of days without a gap, each with
\* a Study_Log row, that end with the latest study day; today or yesterday
\* is allowed for the latest day only, a day skipped further back ends the
\* streak.
C12_CurrentStreak ==
    resp.op = "get_streak_info" =>
        /\ resp.status = 200
        /\ resp.current_streak =
              IF StudyDays = {} \/ LastStudyDay < DayOf(now) - 1 THEN 0
              ELSE RunEndingAt(LastStudyDay)

\* C13: get_streak_info answers as longest_streak the length of the longest
\* run of days without a gap among the study days, whatever the log; with
\* an empty log both streaks are 0 and last_study_date is None.
C13_LongestStreak ==
    resp.op = "get_streak_info" =>
        /\ resp.status = 200
        /\ IF StudyDays = {}
           THEN /\ resp.current_streak = 0
                /\ resp.longest_streak = 0
                /\ resp.last_study_date = NoDate
           ELSE \E d \in StudyDays :
                   /\ resp.longest_streak = RunEndingAt(d)
                   /\ \A e \in StudyDays : RunEndingAt(e) <= RunEndingAt(d)

\* C14: get_overview_stats answers total_words = the number of Vocabulary
\* rows, learned_words = the number of SRS_Review rows with reps > 0,
\* mastered_words = the number with reps >= 5, new_words = total_words -
\* learned_words, due_today = the number of SRS_Review rows whose next_review
\* is not after the end of today, and learning_progress = learned_words /
\* total_words * 100 at the one decimal of the response (kept in tenths),
\* 0 without vocabulary.
C14_Overview ==
    resp.op = "get_overview_stats" =>
        /\ resp.status = 200
        /\ resp.total_words = Cardinality(vocabulary)
        /\ resp.learned_words = Cardinality({r \in srs_review : r.reps > 0})
        /\ resp.mastered_words = Cardinality({r \in srs_review : r.reps >= 5})
        /\ resp.new_words = resp.total_words - resp.learned_words
        /\ resp.due_today =
              Cardinality({r \in srs_review : DayOf(r.next_review) <= DayOf(now)})
        /\ IF resp.total_words = 0 THEN resp.learning_progress = 0
           ELSE LET off == resp.learning_progress * resp.total_words
                             - 1000 * resp.learned_words
                IN  2 * off <= resp.total_words /\ 0 - 2 * off <= resp.total_words

\* three items: one answered right five times, two never answered, one of
\* them not due before tomorrow
C14_Witness ==
    /\ resp.op = "get_overview_stats"
    /\ resp.total_words = 3
    /\ resp.learned_words = 1
    /\ resp.mastered_words = 1
    /\ resp.new_words = 2
    /\ resp.due_today = 1
    /\ resp.learning_progress = 333
    /\ \E r \in srs_review : r.reps = 5

\* the Study_Log rows written on day d
LogOfDay(d) == {i \in 1..Len(study_log) : DayOf(study_log[i].studied_at) = d}

\* C15: get_daily_stats(days) answers days entries, one for each day from
\* today - (days - 1) to today, oldest first; total_reviews, correct and
\* incorrect of an entry count the Study_Log rows of its day, and accuracy
\* is correct / total * 100, 0 without rows.
C15_Daily ==
    resp.op = "get_daily_stats" =>
        /\ resp.status = 200
        /\ Len(resp.stats) = resp.days
        /\ \A j \in 1..resp.days :
              LET e == resp.stats[j]
                  rows == LogOfDay(e.date)
              IN  /\ e.date = DayOf(now) - (resp.days - j)
                  /\ e.total_reviews = Cardinality(rows)
                  /\ e.correct = Cardinality({i \in rows : study_log[i].known})
                  /\ e.incorrect = Cardinality({i \in rows : ~study_log[i].known})
                  /\ e.accuracy = PercentTenths(e.correct, e.total_reviews)

\* the items with a right answer in the log
Succeeded == {study_log[i].vocab_id : i \in {j \in 1..Len(study_log) : study_log[j].known}}

\* the day of the earliest right answer of item v
FirstSuccessDay(v) ==
    LET first == CHOOSE i \in 1..Len(study_log) :
                    /\ study_log[i].known /\ study_log[i].vocab_id = v
                    /\ \A j \in 1..(i - 1) : ~(study_log[j].known /\ study_log[j].vocab_id = v)
    IN  DayOf(study_log[first].studied_at)

\* C16: get_daily_stats counts an item in new_words_learned on one day only,
\* the day of its earliest right answer in the whole log: an entry counts the
\* items whose earliest right answer is of its day, so an item first answered
\* right before the window adds nothing to any entry, and later right
\* answers, after a reset too, are not counted again.
C16_NewWords ==
    resp.op = "get_daily_stats" =>
        /\ resp.status = 200
        /\ \A j \in 1..resp.days :
              resp.stats[j].new_words_learned =
                  Cardinality({v \in Succeeded : FirstSuccessDay(v) = resp.stats[j].date})

----------------------------------------------------------------------------
(* Properties of a run of right answers *)

\* the right answers among the answers S
Rights(S) == {i \in 1..Len(S) : S[i]}

\* no wrong answer follows a right one: S is a run of right answers on an
\* item that had reps = 0 when the run began
RunFromZero(S) == \A i \in Rights(S) : \A j \in i..Len(S) : S[j]

\* the intervals of a fresh item answered right again and again
FreshIntervals == <<1, 6, 15, 38, 95, 238, 365, 365>>

\* C22: on an item with reps = 0, a run of right answers with no wrong
\* answer and no reset in between gives the intervals 1, 6 and from then on
\* the interval before times the ease factor held before that answer,
\* rounded to a nearest integer, at most 365; on a fresh item (ease 2.5) the
\* intervals are 1, 6, 15, 38, 95, 238, 365, 365.
C22_Run ==
    [][\A r \in srs_review :
          (Answered(r, TRUE) /\ RunFromZero(outcomes)) =>
              LET m == Cardinality(Rights(outcomes))
                  q == RowAfter(r)
              IN  /\ m = 0 => q.interval = 1
                  /\ m = 1 => q.interval = 6
                  /\ m >= 2 =>
                        \E X \in 0..1000 :
                            /\ Nearest(X, r.interval, r.ease_factor.tenth)
                            /\ q.interval = Min(X, 365)
                  /\ (m = Len(outcomes) /\ m < Len(FreshIntervals))
                        => q.interval = FreshIntervals[m + 1]]_vars

\* the eighth right answer in a row on a fresh item: 365 again
C22_Witness ==
    /\ outcomes = <<TRUE, TRUE, TRUE, TRUE, TRUE, TRUE, TRUE, TRUE>>
    /\ resp.op = "submit_answer"
    /\ resp.new_interval = 365
    /\ \E r \in srs_review : r.reps = 8 /\ r.interval = 365

\* C23: a right answer makes the interval longer: whenever an item with
\* interval < 365 is answered right, its new interval is strictly greater
\* than the interval it had before the answer.
C23_Grows ==
    [][\A r \in srs_review :
          (Answered(r, TRUE) /\ r.interval < 365) =>
              RowAfter(r).interval > r.interval]_vars


----------------------------------------------------------------------------
(* Properties of the due queue *)

HalfAway(interval, ease) ==
    LET P == interval * ease.tenth
        h == P \div 10
        rem == P % 10
        d == interval * ease.err
        halfUlp == 20 * Pow2Floor(h)
    IN  IF rem < 5 THEN h
        ELSE IF rem > 5 THEN h + 1
        ELSE IF d < 0 - halfUlp THEN h
        ELSE h + 1

\* C25: a right answer at reps >= 2 gives interval * ease_factor rounded to
\* the nearest integer, an exact half away from zero, at most 365;
\* (85, 2.5) gives 213.
C25_HalfAway ==
    [][\A r \in srs_review :
          (Answered(r, TRUE) /\ r.reps >= 2) =>
              /\ RowAfter(r).interval = Min(HalfAway(r.interval, r.ease_factor), 365)
              /\ (r.interval = 85 /\ r.ease_factor = [tenth |-> 25, err |-> 0])
                    => RowAfter(r).interval = 213]_vars

\* the time of the latest answer to item v in the log
LastAnswer(v) ==
    LET rows == {i \in 1..Len(study_log) : study_log[i].vocab_id = v}
    IN  study_log[MaxOf(rows)].studied_at

----------------------------------------------------------------------------
(* Properties of the count of right answers *)

\* the right answers to item v among the log rows S
RightsOf(v, S) == {i \in 1..Len(S) : S[i].vocab_id = v /\ S[i].known}

\* C27: after create, submit_answer and reset_srs served one after another,
\* reps of every item is the number of its Study_Log rows with known = true
\* written since the item was created or last reset; and as long as no
\* reset has taken an answer out of that count, learned_words of the
\* overview is the number of items with a known = true row in the log.
C27_RepsCount ==
    /\ \A r \in srs_review :
          r.reps = Cardinality(RightsOf(r.vocab_id, outcomes))
    /\ \A i \in 1..Len(outcomes) : \E j \in 1..Len(study_log) : study_log[j] = outcomes[i]
    /\ (resp.op = "get_overview_stats" /\ Len(outcomes) = Len(study_log)) =>
          resp.learned_words = Cardinality(Succeeded)

\* item 1 answered right, reset and answered right twice: three right
\* answers in the log, reps = 2
C27_Witness ==
    /\ Len(outcomes) < Len(study_log)
    /\ \E r \in srs_review :
          /\ r.vocab_id = 1
          /\ r.reps = 2
          /\ Cardinality(RightsOf(1, study_log)) = 3


----------------------------------------------------------------------------
(* Properties of the commit of an answer *)

\* the step is the commit of the request p
Commits(p) == sessions[p].pc = "flushed" /\ sessions'[p].pc = "committed"

\* C28: the update of the schedule and the log row of one submit_answer
\* reach the tables in one step or not at all: the commit of a request
\* appends its log row and writes every column it changed to the row of its
\* item; a step of a request that is no commit, a failed flush too, leaves
\* both tables as they are; the log grows and a row that stays is rewritten
\* in no other step than a commit or a submit_answer served alone, which
\* does both.
C28_Atomic ==
    [][/\ \A p \in Procs :
             sessions'[p] # sessions[p] =>
                 IF Commits(p)
                 THEN /\ study_log' = Append(study_log, sessions[p].log)
                      /\ \E r \in srs_review' : r.id = sessions[p].loaded.id
                      /\ \A r \in srs_review' :
                            r.id = sessions[p].loaded.id =>
                                \A c \in Modified(sessions[p]) : r[c] = sessions[p].srs[c]
                 ELSE /\ study_log' = study_log
                      /\ srs_review' = srs_review
       /\ LET grown == Len(study_log') > Len(study_log)
              rewritten == \E r \in srs_review, q \in srs_review' : q.id = r.id /\ q # r
              alone_answer == /\ sessions' = sessions
                              /\ resp'.op = "submit_answer"
                              /\ resp'.status = 200
          IN  /\ (grown \/ rewritten) => (alone_answer \/ \E p \in Procs : Commits(p))
              /\ alone_answer =>
                    /\ Len(study_log') = Len(study_log) + 1
                    /\ study_log'[Len(study_log')].vocab_id = resp'.vocab_id
                    /\ \E r \in srs_review :
                          /\ r.vocab_id = resp'.vocab_id
                          /\ RowAfter(r) = ApplyAnswer(r, resp'.known)]_vars

\* two requests at the same time: the first found the database locked and
\* failed, the second was committed: one log row, and the row of the item
\* holds the update of the second
C28_Witness ==
    /\ sessions[1].pc = "done" /\ sessions[1].status = 500
    /\ sessions[2].pc = "done" /\ sessions[2].status = 200
    /\ sessions[1].known /\ ~sessions[2].known
    /\ study_log = <<[vocab_id |-> 1, known |-> FALSE, studied_at |-> 0]>>
    /\ \E r \in srs_review : r.vocab_id = 1 /\ r.interval = 1 /\ r.reps = 0


----------------------------------------------------------------------------
(* Properties of the return to the due queue *)

\* the rows that are due
Due == {r \in srs_review : r.next_review <= now}

\* C29: next_review of an item is never later than 365 days after its
\* latest submit_answer or reset_srs; an item that is due stays due, and in
\* the answer of get_review_cards, until it is answered; so with time going
\* on, once the answers have come to an end every item is due for good.
C29_DueAgain ==
    /\ [](\A r \in srs_review :
             r.interval >= 1 => r.next_review <= LastAnswer(r.vocab_id) + Days(365))
    /\ [][\A r \in srs_review :
             /\ (resp'.op = "reset_srs" /\ resp'.vocab_id = r.vocab_id) =>
                    RowAfter(r).next_review <= now + Days(365)
             /\ (r \in Due /\ ~Answered(r, TRUE) /\ ~Answered(r, FALSE)) =>
                    /\ RowAfter(r).next_review <= now'
                    /\ resp'.op = "get_review_cards" =>
                          \E i \in 1..Len(resp'.cards) : resp'.cards[i].id = r.id]_vars
    /\ <>[](srs_review \subseteq Due)

\* answered at the end of the first year for the ninth time, with interval
\* 365: the item is in the queue one year later
C29_Witness ==
    /\ now = 2 * Days(365)
    /\ Len(study_log) = 9
    /\ LastAnswer(1) = Days(365)
    /\ resp.op = "get_review_cards"
    /\ Len(resp.cards) = 1
    /\ resp.cards[1].interval = 365


----------------------------------------------------------------------------
(* Properties of the length of the interval *)

\* C30: a right answer never shortens the schedule: the interval after a
\* right answer is at least the interval before it, at reps = 0, at
\* reps = 1 and at reps >= 2, and at the cap of 365 days too.
C30_NeverShorter ==
    [][\A r \in srs_review :
          Answered(r, TRUE) =>
              /\ RowAfter(r).interval >= r.interval
              /\ r.interval = 365 => RowAfter(r).interval = 365]_vars

\* a right answer at interval 1 with the smallest ease factor, 1.3, at
\* reps >= 2: round(1.3) = 1, the interval stays
C30_Witness ==
    /\ resp.op = "submit_answer"
    /\ resp.status = 200
    /\ resp.known
    /\ resp.reps >= 3
    /\ resp.new_interval = 1
    /\ resp.ease_factor.tenth = 14
    /\ study_log[Len(study_log) - 1].known = FALSE

====
